---- MODULE Spec2Model ----
(***************************************************************************)
(* A model of src/cacher.py: CacheStorage (an OrderedDict with LRU or LFU  *)
(* eviction), CacheBackend (zlib on the way in and out) and Cache (TTL,    *)
(* hit/miss counters, the periodic sweep).                                 *)
(*                                                                         *)
(* The three classes are public and share one storage object, so callers   *)
(* at each level are modelled: Storage.put/get, Backend.put/get and        *)
(* Cache.put/get.  Every coroutine of Cache runs its locked section        *)
(* without an await inside it, so on the asyncio loop each call is one     *)
(* atomic step.                                                            *)
(*                                                                         *)
(* Python values are records [ty, n, t, s]:                                *)
(*   ty = "none"   None                                                    *)
(*   ty = "int"    the integer n                                           *)
(*   ty = "bytes"  the byte string s (not a zlib stream)                   *)
(*   ty = "z"      the zlib stream that zlib.compress makes of bytes s     *)
(*   ty = "tuple"  the pair (t, n): a timestamp and an integer value       *)
(***************************************************************************)
EXTENDS Integers, Sequences, FiniteSets, TLC

\* ------------------------------------------------------------------ bounds
\* CacheStorage on its own
NumKeys == 3
MaxCap == 2
MaxCount == 2
\* Cache over Backend over Storage
NumCacheKeys == 2
MaxCacheCap == 1
MaxTime == 2
MaxTtl == 1
MaxStat == 2
\* the capacity of the LFU scenario
ScenarioCap == 10
\* tasks that call a memoized function, and its argument lists
NumTasks == 2
NumArgs == 1
\* sweeper tasks that Cache.start can create
NumSweepers == 2
\* the sweep interval when ttl // 2 is 0
DefaultInterval == 300

Keys == 1..NumKeys

CacheKeys == 1..NumCacheKeys

Tasks == 1..NumTasks

Args == 1..NumArgs

\* the tasks that run cleanup_expired_entries, numbered after the callers
Sweepers == (NumTasks + 1)..(NumTasks + NumSweepers)

Procs == Tasks \cup Sweepers

\* ------------------------------------------------------------ Python values
PyNone == [ty |-> "none", n |-> 0, t |-> 0, s |-> <<>>]
PyInt(i) == [ty |-> "int", n |-> i, t |-> 0, s |-> <<>>]
PyBytes(b) == [ty |-> "bytes", n |-> 0, t |-> 0, s |-> b]
PyZ(b) == [ty |-> "z", n |-> 0, t |-> 0, s |-> b]
PyTuple(ts, i) == [ty |-> "tuple", n |-> i, t |-> ts, s |-> <<>>]

\* bool(x): None, 0 and b"" are falsy; a zlib stream is never empty (it has
\* a header and a checksum), a pair is never empty.
TruthyOfPayload(x) ==
    CASE x.ty = "none" -> FALSE
      [] x.ty = "int" -> x.n # 0
      [] OTHER -> Len(x.s) > 0

Truthy(x) ==
    CASE x.ty = "none" -> FALSE
      [] x.ty = "int" -> x.n # 0
      [] x.ty = "bytes" -> Len(x.s) > 0
      [] x.ty = "z" -> TRUE
      [] OTHER -> TRUE

\* A call's outcome: the exception raised ("none" when it returns) and the
\* value returned.
Returns(x) == [err |-> "none", val |-> x]
Raises(e) == [err |-> e, val |-> PyNone]

\* zlib.compress(x): bytes in, a stream out; a value that is not bytes-like
\* (a tuple, an int, None) is a TypeError.  No caller of the model passes a
\* stream back in.
zlib_compress(x) ==
    IF x.ty = "bytes" THEN Returns(PyZ(x.s)) ELSE Raises("TypeError")

\* zlib.decompress(x): the bytes a stream was made of; bytes that are no
\* stream are a zlib.error; anything else is a TypeError.
zlib_decompress(x) ==
    IF x.ty = "z" THEN Returns(PyBytes(x.s))
    ELSE IF x.ty = "bytes" THEN Raises("zlib.error")
    ELSE Raises("TypeError")

\* ------------------------------------------------------------------- state
VARIABLES
    eviction_policy,  \* CacheStorage.eviction_policy: "lru" or "lfu"
    capacity,         \* CacheStorage.capacity
    ttl,              \* Cache.ttl (0: no expiry)
    data,             \* CacheStorage.data: the OrderedDict, first to last, as
                      \* a sequence of [key, val, at]; at is history only: the
                      \* time of the put that stored val
    usage,            \* CacheStorage.usage: the Counter, in insertion order,
                      \* as a sequence of [key, n]; <<>> under LRU (None)
    hits,             \* Cache.hits
    misses,           \* Cache.misses
    now,              \* time.time()
    last,             \* history: the call that ran last, [op, key, had, err,
                      \* val, victim]: had says the key was stored when the
                      \* call began, val is what a put was given or a get
                      \* returned, victim the key the call evicted.  A tick of
                      \* the clock is recorded too, so last.op names a call
                      \* only while no time has passed since it.
    run,              \* history: [pure, puts]: the Storage.put calls so far,
                      \* as [key, val], while the storage has seen nothing
                      \* but puts of keys never put before
    ctor,             \* history: Cache.__init__ as it was called: [ttl, err,
                      \* cleanup_interval]: the ttl argument (a Python
                      \* value), the exception raised, the interval set
    memo,             \* per task, its call of an async_memoize wrapper:
                      \* [pc, key, result]; pc is "idle" (no call), "func"
                      \* (awaiting the wrapped function) or "put" (about to
                      \* await self.put)
    invoked,          \* history: per argument list, how many times the
                      \* wrapped function was invoked
    lock,             \* Cache.lock, an asyncio.Lock: [locked, owner, waiters]:
                      \* _locked, the task that holds it (history; 0: none)
                      \* and _waiters, first to last
    task              \* per task of the event loop, where it is in its call
                      \* of Cache: [pc, op, key, val]; pc is "idle" (not in
                      \* a call of Cache yet, or between the calls its
                      \* memoize wrapper makes), "waiting" (in
                      \* lock.acquire), "locked" (inside async with) or
                      \* "done", and for a sweeper also "none" (not
                      \* created), "sleeping", "dead" (ended by an
                      \* exception) or "cancelled"

vars ==
    <<eviction_policy, capacity, ttl, data, usage, hits, misses, now, last, run,
      ctor, memo, invoked, lock, task>>

\* ---------------------------------------------------------- OrderedDict
DictKeys(d) == {d[i].key : i \in DOMAIN d}

DictIndex(d, k) == CHOOSE i \in DOMAIN d : d[i].key = k

\* d.get(k): the value, or None
DictGet(d, k) == IF k \in DictKeys(d) THEN d[DictIndex(d, k)].val ELSE PyNone

\* the time of the put that stored k's value (history)
DictAt(d, k) == d[DictIndex(d, k)].at

\* d[k] = v: a stored key keeps its place, a new key goes last
DictSet(d, k, v, at) ==
    IF k \in DictKeys(d)
    THEN [i \in DOMAIN d |->
            IF d[i].key = k THEN [key |-> k, val |-> v, at |-> at] ELSE d[i]]
    ELSE Append(d, [key |-> k, val |-> v, at |-> at])

\* del d[k]
DictDel(d, k) == SelectSeq(d, LAMBDA e : e.key # k)

\* -------------------------------------------------------------- Counter
CounterKeys(u) == {u[i].key : i \in DOMAIN u}

CounterGet(u, k) ==
    IF k \in CounterKeys(u) THEN u[CHOOSE i \in DOMAIN u : u[i].key = k].n ELSE 0

\* u[k] += 1: a missing key is created last, at 1
CounterInc(u, k) ==
    IF k \in CounterKeys(u)
    THEN [i \in DOMAIN u |->
            IF u[i].key = k THEN [key |-> k, n |-> u[i].n + 1] ELSE u[i]]
    ELSE Append(u, [key |-> k, n |-> 1])

\* del u[k]
CounterDel(u, k) == SelectSeq(u, LAMBDA e : e.key # k)

\* Counter.most_common(): sorted(items, key=count, reverse=True), which is
\* stable: equal counts stay in insertion order.
RECURSIVE InsertByCount(_, _)
InsertByCount(s, e) ==
    IF s = <<>> THEN <<e>>
    ELSE IF Head(s).n >= e.n THEN <<Head(s)>> \o InsertByCount(Tail(s), e)
    ELSE <<e>> \o s

RECURSIVE most_common(_)
most_common(u) ==
    IF u = <<>> THEN <<>>
    ELSE InsertByCount(most_common(SubSeq(u, 1, Len(u) - 1)), u[Len(u)])

\* most_common()[:-2:-1][0][0]: the key of the last item of most_common()
most_used(u) == most_common(u)[1].key

least_used(u) == most_common(u)[Len(u)].key

\* ---------------------------------------------------------- CacheStorage
\* len(self.data) > self.capacity
OverCapacityOffByOne(d) == Len(d) > capacity + 1

OverCapacity(d) == Len(d) > capacity

StorageGetCountingAbsent(d, u, k) ==
    [val |-> DictGet(d, k),
     usage |-> IF eviction_policy = "lfu" THEN CounterInc(u, k) ELSE u]

\* CacheStorage.get(key): what it returns and the Counter it leaves
StorageGet(d, u, k) ==
    [val |-> DictGet(d, k),
     usage |-> IF eviction_policy = "lfu" /\ k \in DictKeys(d)
               THEN CounterInc(u, k) ELSE u]

\* LRU: self.data.popitem(last=False)
PopLast(d) == [data |-> SubSeq(d, 1, Len(d) - 1), victim |-> {d[Len(d)].key}]

PopTwo(d) == [data |-> Tail(Tail(d)), victim |-> {Head(d).key}]

PopFirst(d) == [data |-> Tail(d), victim |-> {Head(d).key}]

\* CacheStorage.put(key, value): the dict and the Counter it leaves, the
\* exception it raises and the key it evicted (history).  del self.data[k]
\* on a key that is not stored is a KeyError, raised before the Counter is
\* touched.
StoragePut(d, u, k, v) ==
    LET d1 == DictSet(d, k, v, now)
        u1 == IF eviction_policy = "lfu" THEN CounterInc(u, k) ELSE u
    IN  IF OverCapacity(d1)
        THEN IF eviction_policy = "lfu"
             THEN LET lu == least_used(u1)
                  IN  IF lu \in DictKeys(d1)
                      THEN [data |-> DictDel(d1, lu), usage |-> CounterDel(u1, lu),
                            err |-> "none", victim |-> {lu}]
                      ELSE [data |-> d1, usage |-> u1,
                            err |-> "KeyError", victim |-> {}]
             ELSE [data |-> PopFirst(d1).data, usage |-> u1,
                   err |-> "none", victim |-> PopFirst(d1).victim]
        ELSE [data |-> d1, usage |-> u1, err |-> "none", victim |-> {}]

\* ---------------------------------------------------------- CacheBackend
\* CacheBackend.get(key): Storage.get, then decompress what is truthy
BackendGet(d, u, k) ==
    LET g == StorageGet(d, u, k)
        r == IF Truthy(g.val) THEN zlib_decompress(g.val) ELSE Returns(PyNone)
    IN  [err |-> r.err, val |-> r.val, usage |-> g.usage]

\* CacheBackend.put(key, value): compress, then Storage.put; a value that
\* zlib refuses leaves the storage as it was
BackendPut(d, u, k, v) ==
    LET c == zlib_compress(v)
    IN  IF c.err # "none"
        THEN [data |-> d, usage |-> u, err |-> c.err, victim |-> {}]
        ELSE StoragePut(d, u, k, c.val)

\* ------------------------------------------------------------------ Cache
\* timestamp, value = x: a pair or two bytes unpack (a byte is an int);
\* bytes of another length, and a zlib stream (8 bytes at least), are a
\* ValueError; an int or None is a TypeError.
Unpack2(x) ==
    CASE x.ty = "tuple" -> [err |-> "none", ts |-> x.t, val |-> PyInt(x.n)]
      [] x.ty = "bytes" /\ Len(x.s) = 2 ->
            [err |-> "none", ts |-> x.s[1], val |-> PyInt(x.s[2])]
      [] x.ty \in {"bytes", "z"} -> [err |-> "ValueError", ts |-> 0, val |-> PyNone]
      [] OTHER -> [err |-> "TypeError", ts |-> 0, val |-> PyNone]

\* self.ttl and time.time() - timestamp > self.ttl
ExpiredAtOrAfter(ts) == ttl # 0 /\ now - ts >= ttl

ExpiredNever(ts) == FALSE

Expired(ts) == ttl # 0 /\ now - ts > ttl

CacheGetResetting(d, u, h, m, k) ==
    LET b == BackendGet(d, u, k)
        e == Unpack2(b.val)
        same == [data |-> d, usage |-> b.usage, hits |-> h, misses |-> m,
                 err |-> "none", val |-> PyNone]
    IN  IF b.err # "none" THEN [same EXCEPT !.err = b.err]
        ELSE IF Truthy(b.val)
        THEN IF e.err # "none" THEN [same EXCEPT !.err = e.err]
             ELSE IF Expired(e.ts)
             THEN [same EXCEPT !.data = DictDel(d, k)]
             ELSE [same EXCEPT !.hits = h + 1, !.val = e.val]
        ELSE [same EXCEPT !.misses = m + 1, !.hits = 0]

CacheGetClearing(d, u, h, m, k) ==
    LET b == BackendGet(d, u, k)
        e == Unpack2(b.val)
        same == [data |-> d, usage |-> b.usage, hits |-> h, misses |-> m,
                 err |-> "none", val |-> PyNone]
    IN  IF b.err # "none" THEN [same EXCEPT !.err = b.err]
        ELSE IF Truthy(b.val)
        THEN IF e.err # "none" THEN [same EXCEPT !.err = e.err]
             ELSE IF Expired(e.ts)
             THEN [same EXCEPT !.data = <<>>]
             ELSE [same EXCEPT !.hits = h + 1, !.val = e.val]
        ELSE [same EXCEPT !.misses = m + 1]

\* Cache.get(key), under the lock: the dict, the Counter and the counters it
\* leaves, the exception it raises or the value it returns
CacheGet(d, u, h, m, k) ==
    LET b == BackendGet(d, u, k)
        e == Unpack2(b.val)
        same == [data |-> d, usage |-> b.usage, hits |-> h, misses |-> m,
                 err |-> "none", val |-> PyNone]
    IN  IF b.err # "none" THEN [same EXCEPT !.err = b.err]
        ELSE IF Truthy(b.val)
        THEN IF e.err # "none" THEN [same EXCEPT !.err = e.err]
             ELSE IF Expired(e.ts)
             THEN [same EXCEPT !.data = DictDel(d, k)]
             ELSE [same EXCEPT !.hits = h + 1, !.val = e.val]
        ELSE [same EXCEPT !.misses = m + 1]

\* Cache.put(key, value), under the lock
CachePut(d, u, k, v) == BackendPut(d, u, k, PyTuple(now, v.n))

\* x[0]: the timestamp of a pair, the first byte of bytes (of a zlib stream
\* made with the default level that is the header byte 0x78); None and an
\* int have no subscript.
Subscript0(x) ==
    CASE x.ty = "tuple" -> Returns(PyInt(x.t))
      [] x.ty = "bytes" /\ Len(x.s) > 0 -> Returns(PyInt(x.s[1]))
      [] x.ty = "bytes" -> Raises("IndexError")
      [] x.ty = "z" -> Returns(PyInt(120))
      [] OTHER -> Raises("TypeError")

\* Cache.stats(), under the lock: the exception raised or the four numbers
\* of the dict returned
CacheStats(d, h, m) ==
    LET oldest_entry == IF d # <<>> THEN d[1].val ELSE PyNone
        r == IF Truthy(oldest_entry) THEN Subscript0(oldest_entry)
             ELSE Returns(PyNone)
    IN  [err |-> r.err, hits |-> h, misses |-> m, size |-> Len(d),
         oldest_entry_timestamp |-> r.val]

\* One cycle of Cache.cleanup_expired_entries, under the lock: the list
\* comprehension unpacks every stored value before anything is deleted, so
\* one value that does not unpack ends the cycle (and the task) with the
\* dict untouched.
SweepErrors(d) == {Unpack2(d[i].val).err : i \in DOMAIN d} \ {"none"}

expired_keys(d) ==
    {d[i].key : i \in {j \in DOMAIN d : Expired(Unpack2(d[j].val).ts)}}

Sweep(d) ==
    IF SweepErrors(d) # {}
    THEN [data |-> d, err |-> CHOOSE e \in SweepErrors(d) : TRUE]
    ELSE [data |-> SelectSeq(d, LAMBDA e : e.key \notin expired_keys(d)),
          err |-> "none"]

\* ------------------------------------------------------------ constructors
\* CacheStorage.__init__(capacity, eviction_policy): three assignments, no
\* check of either argument; any policy other than "lfu" gets usage = None
\* and is evicted from the front by put.
CacheStorageInit(c, policy) ==
    [capacity |-> c, eviction_policy |-> policy, err |-> "none"]

\* ttl // 2 or 300: None has no floor division
cleanup_interval(t) ==
    IF t.ty = "int"
    THEN Returns(PyInt(IF t.n \div 2 # 0 THEN t.n \div 2 ELSE DefaultInterval))
    ELSE Raises("TypeError")

\* Cache.__init__(backend, ttl), over CacheStorage(c, policy)
CacheInit(c, policy, t) ==
    [storage_err |-> CacheStorageInit(c, policy).err, ttl |-> t,
     err |-> cleanup_interval(t).err,
     cleanup_interval |-> cleanup_interval(t).val]

\* -------------------------------------------------------------- memoizing
\* hashlib.sha256(str(args) + str(kwargs)).hexdigest(): one key per argument
\* list; the keys are numbered as the argument lists are
digest(a) == a

\* what the wrapped function may return: a falsy and a truthy value
Results == {PyInt(0), PyInt(1)}

Idle == [pc |-> "idle", arg |-> 0, result |-> PyNone]

\* ------------------------------------------------------------ asyncio.Lock
Unlocked == [locked |-> FALSE, owner |-> 0, waiters |-> <<>>]

IdleTask == [pc |-> "idle", op |-> "none", key |-> 0, val |-> PyNone]

NoTask == [IdleTask EXCEPT !.pc = "none"]

LockFreeAlways(l) == TRUE

\* the test of Lock.acquire: not locked, and nobody waiting
LockFree(l) == ~l.locked /\ l.waiters = <<>>

\* Lock.acquire() by p: takes a free lock at once, otherwise p joins the
\* waiters; the lock and p's pc
Acquire(l, p) ==
    IF LockFree(l)
    THEN [lock |-> [l EXCEPT !.locked = TRUE, !.owner = p], pc |-> "locked"]
    ELSE [lock |-> [l EXCEPT !.waiters = Append(@, p)], pc |-> "waiting"]

ReleaseNever(l) == l

\* Lock.release(): unlocks; the first waiter is woken (it is the one that
\* can resume while the lock is unlocked)
Release(l) == [l EXCEPT !.locked = FALSE, !.owner = 0]

SuspendedOrLocked(pc) == pc \in {"sleeping", "waiting", "locked"}

\* a task can be cancelled where it is suspended: in asyncio.sleep or in
\* lock.acquire
Suspended(pc) == pc \in {"sleeping", "waiting"}

\* ----------------------------------------------------------------- inputs
\* what a caller of Storage or Cache stores: plain values.  No class looks
\* into a value, so two of them are enough to tell an overwrite from what
\* it replaces.
Values == {PyInt(1), PyInt(2)}

\* what a caller of Backend stores: byte strings; two bytes is what Cache.get
\* unpacks as (timestamp, value)
Payloads == {PyBytes(<<t, 1>>) : t \in 0..MaxTime}

\* byte strings of every length a caller of Backend can tell apart: empty,
\* one byte, and the two bytes that Cache.get unpacks
BackendPayloads == {PyBytes(<<>>), PyBytes(<<1>>), PyBytes(<<0, 1>>)}

\* what a caller of Storage can store beside a zlib stream: None, bytes that
\* are no stream, and the pair that Cache.put means to store
RawValues == {PyNone, PyBytes(<<1>>), PyTuple(0, 1)}

CountsBounded(u) == \A i \in DOMAIN u : u[i].n <= MaxCount

Call(op, k, err, val, victim) ==
    [op |-> op, key |-> k, had |-> k \in DictKeys(data), err |-> err,
     val |-> val, victim |-> victim]

Impure == [pure |-> FALSE, puts |-> <<>>]

RunAfterPut(k, v) ==
    IF run.pure /\ k \notin {run.puts[i].key : i \in DOMAIN run.puts}
    THEN [run EXCEPT !.puts = Append(@, [key |-> k, val |-> v])]
    ELSE Impure

\* ---------------------------------------------------------------- actions
StoragePutStep(k, v) ==
    LET r == StoragePut(data, usage, k, v)
    IN  /\ data' = r.data
        /\ usage' = r.usage
        /\ last' = Call("Storage.put", k, r.err, v, r.victim)
        /\ run' = RunAfterPut(k, v)
        /\ UNCHANGED <<lock, task, ctor, memo, invoked, eviction_policy, capacity, ttl, hits, misses, now>>

StorageGetStep(k) ==
    LET r == StorageGet(data, usage, k)
    IN  /\ usage' = r.usage
        /\ last' = Call("Storage.get", k, "none", r.val, {})
        /\ run' = Impure
        /\ UNCHANGED <<lock, task, ctor, memo, invoked, eviction_policy, capacity, ttl, data, hits, misses, now>>

CallStoragePut(k, v) ==
    /\ CountsBounded(StoragePut(data, usage, k, v).usage)
    /\ StoragePutStep(k, v)

CallStorageGet(k) ==
    /\ CountsBounded(StorageGet(data, usage, k).usage)
    /\ StorageGetStep(k)

CallBackendPut(k, v) ==
    LET r == BackendPut(data, usage, k, v)
    IN  /\ CountsBounded(r.usage)
        /\ data' = r.data
        /\ usage' = r.usage
        /\ last' = Call("Backend.put", k, r.err, v, r.victim)
        /\ run' = Impure
        /\ UNCHANGED <<lock, task, ctor, memo, invoked, eviction_policy, capacity, ttl, hits, misses, now>>

CallBackendGet(k) ==
    LET r == BackendGet(data, usage, k)
    IN  /\ CountsBounded(r.usage)
        /\ usage' = r.usage
        /\ last' = Call("Backend.get", k, r.err, r.val, {})
        /\ run' = Impure
        /\ UNCHANGED <<lock, task, ctor, memo, invoked, eviction_policy, capacity, ttl, data, hits, misses, now>>

CallCachePut(k, v) ==
    LET r == CachePut(data, usage, k, v)
    IN  /\ CountsBounded(r.usage)
        /\ data' = r.data
        /\ usage' = r.usage
        /\ last' = Call("Cache.put", k, r.err, v, r.victim)
        /\ run' = Impure
        /\ UNCHANGED <<lock, task, ctor, memo, invoked, eviction_policy, capacity, ttl, hits, misses, now>>

CallCacheGet(k) ==
    LET r == CacheGet(data, usage, hits, misses, k)
    IN  /\ CountsBounded(r.usage)
        /\ r.hits <= MaxStat
        /\ r.misses <= MaxStat
        /\ data' = r.data
        /\ usage' = r.usage
        /\ hits' = r.hits
        /\ misses' = r.misses
        /\ last' = Call("Cache.get", k, r.err, r.val, {})
        /\ run' = Impure
        /\ UNCHANGED <<lock, task, ctor, memo, invoked, eviction_policy, capacity, ttl, now>>

SweepCycle ==
    LET r == Sweep(data)
    IN  /\ data' = r.data
        /\ last' = Call("sweep", 0, r.err, PyNone, {})
        /\ run' = Impure
        /\ UNCHANGED <<lock, task, ctor, memo, invoked, eviction_policy, capacity, ttl, usage, hits, misses, now>>

CallStats ==
    LET r == CacheStats(data, hits, misses)
    IN  /\ last' = [op |-> "Cache.stats", key |-> 0, had |-> FALSE,
                    err |-> r.err, val |-> r.oldest_entry_timestamp,
                    victim |-> {}, size |-> r.size, hits |-> r.hits,
                    misses |-> r.misses]
        /\ UNCHANGED <<lock, task, ctor, memo, invoked, eviction_policy, capacity, ttl, data, usage, hits,
                       misses, now, run>>

\* async_wrapper up to its first await of something other than the lock:
\* result = await self.get(key); a truthy result is returned, anything else
\* sends the task to the wrapped function.  The get inside is a Cache.get
\* like any other.
MemoCall(p, a) ==
    LET k == digest(a)
        r == CacheGet(data, usage, hits, misses, k)
    IN  /\ memo[p].pc = "idle"
        /\ CountsBounded(r.usage)
        /\ r.hits <= MaxStat
        /\ r.misses <= MaxStat
        /\ data' = r.data
        /\ usage' = r.usage
        /\ hits' = r.hits
        /\ misses' = r.misses
        /\ IF r.err # "none"
           THEN /\ last' = Call("memo", k, r.err, PyNone, {})
                /\ memo' = memo
           ELSE IF Truthy(r.val)
           THEN /\ last' = Call("memo", k, "none", r.val, {})
                /\ memo' = memo
           ELSE /\ last' = Call("Cache.get", k, "none", r.val, {})
                /\ memo' = [memo EXCEPT ![p] = [pc |-> "func", arg |-> a,
                                                result |-> PyNone]]
        /\ run' = Impure
        /\ UNCHANGED <<lock, task, ctor, invoked, eviction_policy, capacity, ttl, now>>

\* result = await func(*args, **kwargs): the lock is not held
MemoFunc(p) ==
    /\ memo[p].pc = "func"
    /\ invoked[memo[p].arg] < 2 * MaxStat
    /\ \E r \in Results :
          memo' = [memo EXCEPT ![p] = [@ EXCEPT !.pc = "put", !.result = r]]
    /\ invoked' = [invoked EXCEPT ![memo[p].arg] = @ + 1]
    /\ UNCHANGED <<lock, task, ctor, eviction_policy, capacity, ttl, data, usage, hits,
                   misses, now, last, run>>

\* await self.put(key, result); return result
MemoPut(p) ==
    LET k == digest(memo[p].arg)
        r == CachePut(data, usage, k, memo[p].result)
    IN  /\ memo[p].pc = "put"
        /\ CountsBounded(r.usage)
        /\ data' = r.data
        /\ usage' = r.usage
        /\ last' = Call("memo", k, r.err,
                        IF r.err = "none" THEN memo[p].result ELSE PyNone,
                        r.victim)
        /\ memo' = [memo EXCEPT ![p] = Idle]
        /\ run' = Impure
        /\ UNCHANGED <<lock, task, ctor, invoked, eviction_policy, capacity, ttl, hits,
                       misses, now>>

\* ------------------------------------------- the calls of Cache, by steps
\* On the event loop a task that finds the lock free goes through
\* acquisition, locked section and release without yielding.  Below, a call
\* is two steps, async with self.lock (Enter, or Resume after a wait) and
\* the section with the release that ends it, and other tasks may run in
\* between: every schedule of the event loop is among these.
Enter(p, op, k, v) ==
    LET a == Acquire(lock, p)
    IN  /\ lock' = a.lock
        /\ task' = [task EXCEPT ![p] = [pc |-> a.pc, op |-> op, key |-> k,
                                        val |-> v]]

ExitHolding(p, pc) ==
    /\ lock' = lock
    /\ task' = [task EXCEPT ![p] = [IdleTask EXCEPT !.pc = pc]]

\* leaving async with, by return or by exception
Exit(p, pc) ==
    /\ lock' = Release(lock)
    /\ task' = [task EXCEPT ![p] = [IdleTask EXCEPT !.pc = pc]]

\* a task makes one call
CanBegin(p) == task[p].pc = "idle" /\ memo[p].pc = "idle"

\* await cache.get(key)
BeginGet(p, k) ==
    /\ CanBegin(p)
    /\ Enter(p, "Cache.get", k, PyNone)
    /\ UNCHANGED <<eviction_policy, capacity, ttl, data, usage, hits, misses,
                   now, last, run, ctor, memo, invoked>>

\* await cache.put(key, value)
BeginPut(p, k, v) ==
    /\ CanBegin(p)
    /\ Enter(p, "Cache.put", k, v)
    /\ UNCHANGED <<eviction_policy, capacity, ttl, data, usage, hits, misses,
                   now, last, run, ctor, memo, invoked>>

\* await cache.stats()
BeginStats(p) ==
    /\ CanBegin(p)
    /\ Enter(p, "Cache.stats", 0, PyNone)
    /\ UNCHANGED <<eviction_policy, capacity, ttl, data, usage, hits, misses,
                   now, last, run, ctor, memo, invoked>>

\* the wrapper of async_memoize is called: result = await self.get(key)
BeginMemo(p, a) ==
    /\ CanBegin(p)
    /\ Enter(p, "memo.get", digest(a), PyNone)
    /\ memo' = [memo EXCEPT ![p] = [pc |-> "get", arg |-> a, result |-> PyNone]]
    /\ UNCHANGED <<eviction_policy, capacity, ttl, data, usage, hits, misses,
                   now, last, run, ctor, invoked>>

\* the wrapper, back from the wrapped function: await self.put(key, result)
BeginMemoPut(p) ==
    /\ task[p].pc = "idle"
    /\ memo[p].pc = "put"
    /\ Enter(p, "memo.put", digest(memo[p].arg), memo[p].result)
    /\ UNCHANGED <<eviction_policy, capacity, ttl, data, usage, hits, misses,
                   now, last, run, ctor, memo, invoked>>

\* a waiter woken by release resumes in Lock.acquire and takes the lock
Resume(p) ==
    /\ task[p].pc = "waiting"
    /\ ~lock.locked
    /\ lock.waiters # <<>>
    /\ Head(lock.waiters) = p
    /\ lock' = [locked |-> TRUE, owner |-> p, waiters |-> Tail(lock.waiters)]
    /\ task' = [task EXCEPT ![p].pc = "locked"]
    /\ UNCHANGED <<eviction_policy, capacity, ttl, data, usage, hits, misses,
                   now, last, run, ctor, memo, invoked>>

GetSection(p) ==
    LET k == task[p].key
        r == CacheGet(data, usage, hits, misses, k)
    IN  /\ task[p].pc = "locked"
        /\ task[p].op = "Cache.get"
        /\ data' = r.data
        /\ usage' = r.usage
        /\ hits' = r.hits
        /\ misses' = r.misses
        /\ last' = Call("Cache.get", k, r.err, r.val, {})
        /\ run' = Impure
        /\ Exit(p, "done")
        /\ UNCHANGED <<eviction_policy, capacity, ttl, now, ctor, memo, invoked>>

PutSectionLeaking(p) ==
    LET k == task[p].key
        r == CachePut(data, usage, k, task[p].val)
    IN  /\ task[p].pc = "locked"
        /\ task[p].op = "Cache.put"
        /\ data' = r.data
        /\ usage' = r.usage
        /\ last' = Call("Cache.put", k, r.err, task[p].val, r.victim)
        /\ run' = Impure
        /\ IF r.err = "none" THEN Exit(p, "done") ELSE ExitHolding(p, "done")
        /\ UNCHANGED <<eviction_policy, capacity, ttl, hits, misses, now, ctor,
                       memo, invoked>>

PutSection(p) ==
    LET k == task[p].key
        r == CachePut(data, usage, k, task[p].val)
    IN  /\ task[p].pc = "locked"
        /\ task[p].op = "Cache.put"
        /\ data' = r.data
        /\ usage' = r.usage
        /\ last' = Call("Cache.put", k, r.err, task[p].val, r.victim)
        /\ run' = Impure
        /\ Exit(p, "done")
        /\ UNCHANGED <<eviction_policy, capacity, ttl, hits, misses, now, ctor,
                       memo, invoked>>

StatsSection(p) ==
    LET r == CacheStats(data, hits, misses)
    IN  /\ task[p].pc = "locked"
        /\ task[p].op = "Cache.stats"
        /\ last' = [op |-> "Cache.stats", key |-> 0, had |-> FALSE,
                    err |-> r.err, val |-> r.oldest_entry_timestamp,
                    victim |-> {}, size |-> r.size, hits |-> r.hits,
                    misses |-> r.misses]
        /\ Exit(p, "done")
        /\ UNCHANGED <<eviction_policy, capacity, ttl, data, usage, hits,
                       misses, now, run, ctor, memo, invoked>>

\* the section of the wrapper's self.get, and the test `if not result`
MemoGetSection(p) ==
    LET k == task[p].key
        r == CacheGet(data, usage, hits, misses, k)
    IN  /\ task[p].pc = "locked"
        /\ task[p].op = "memo.get"
        /\ data' = r.data
        /\ usage' = r.usage
        /\ hits' = r.hits
        /\ misses' = r.misses
        /\ IF r.err # "none"
           THEN /\ last' = Call("memo", k, r.err, PyNone, {})
                /\ memo' = [memo EXCEPT ![p] = Idle]
           ELSE IF Truthy(r.val)
           THEN /\ last' = Call("memo", k, "none", r.val, {})
                /\ memo' = [memo EXCEPT ![p] = Idle]
           ELSE /\ last' = Call("Cache.get", k, "none", r.val, {})
                /\ memo' = [memo EXCEPT ![p].pc = "func"]
        /\ run' = Impure
        /\ Exit(p, IF r.err = "none" /\ ~Truthy(r.val) THEN "idle" ELSE "done")
        /\ UNCHANGED <<eviction_policy, capacity, ttl, now, ctor, invoked>>

\* the section of the wrapper's self.put; return result
MemoPutSection(p) ==
    LET k == task[p].key
        r == CachePut(data, usage, k, task[p].val)
    IN  /\ task[p].pc = "locked"
        /\ task[p].op = "memo.put"
        /\ data' = r.data
        /\ usage' = r.usage
        /\ last' = Call("memo", k, r.err,
                        IF r.err = "none" THEN task[p].val ELSE PyNone,
                        r.victim)
        /\ memo' = [memo EXCEPT ![p] = Idle]
        /\ run' = Impure
        /\ Exit(p, "done")
        /\ UNCHANGED <<eviction_policy, capacity, ttl, hits, misses, now, ctor,
                       invoked>>

\* self.cleanup_task: the task that the last call of Cache.start created (0:
\* none yet); the tasks are numbered in the order of their creation
Created == {s \in Sweepers : task[s].pc # "none"}

cleanup_task ==
    IF Created = {} THEN 0 ELSE CHOOSE s \in Created : \A r \in Created : r <= s

\* Cache.start(): a new task runs cleanup_expired_entries up to its sleep
StartSweeper(s) ==
    /\ task[s].pc = "none"
    /\ \A r \in Sweepers : r < s => task[r].pc # "none"
    /\ task' = [task EXCEPT ![s].pc = "sleeping"]
    /\ UNCHANGED <<eviction_policy, capacity, ttl, data, usage, hits, misses,
                   now, last, run, ctor, memo, invoked, lock>>

\* asyncio.sleep(self.cleanup_interval) is over: async with self.lock
SweeperWake(s) ==
    /\ task[s].pc = "sleeping"
    /\ Enter(s, "sweep", 0, PyNone)
    /\ UNCHANGED <<eviction_policy, capacity, ttl, data, usage, hits, misses,
                   now, last, run, ctor, memo, invoked>>

\* the locked section of one cycle; an exception ends the task, otherwise
\* it sleeps again
SweepSection(s) ==
    LET r == Sweep(data)
    IN  /\ task[s].pc = "locked"
        /\ task[s].op = "sweep"
        /\ data' = r.data
        /\ last' = Call("sweep", 0, r.err, PyNone, {})
        /\ run' = Impure
        /\ Exit(s, IF r.err = "none" THEN "sleeping" ELSE "dead")
        /\ UNCHANGED <<eviction_policy, capacity, ttl, usage, hits, misses,
                       now, ctor, memo, invoked>>

\* cleanup_task.cancel(): CancelledError is raised in the sweeper where it
\* is suspended; in Lock.acquire it leaves the waiters
Cancel(s) ==
    /\ Suspended(task[s].pc)
    /\ task' = [task EXCEPT ![s] = [IdleTask EXCEPT !.pc = "cancelled"]]
    /\ lock' = [lock EXCEPT !.waiters = SelectSeq(@, LAMBDA q : q # s)]
    /\ UNCHANGED <<eviction_policy, capacity, ttl, data, usage, hits, misses,
                   now, last, run, ctor, memo, invoked>>

\* time.time() moves on between calls
Tick ==
    /\ now < MaxTime
    /\ now' = now + 1
    /\ last' = Call("tick", 0, "none", PyNone, {})
    /\ UNCHANGED <<lock, task, ctor, memo, invoked, eviction_policy, capacity, ttl, data, usage, hits, misses, run>>

\* --------------------------------------------------------- specifications
\* CacheStorage(capacity, eviction_policy), CacheBackend(storage),
\* Cache(backend, ttl)
Fresh ==
    /\ data = <<>>
    /\ usage = <<>>
    /\ hits = 0
    /\ misses = 0
    /\ now = 0
    /\ last = Call("init", 0, "none", PyNone, {})
    /\ run = [pure |-> TRUE, puts |-> <<>>]
    /\ memo = [p \in Tasks |-> Idle]
    /\ invoked = [a \in Args |-> 0]
    /\ lock = Unlocked
    /\ task = [p \in Procs |-> IF p \in Tasks THEN IdleTask ELSE NoTask]

Start == eviction_policy \in {"lru", "lfu"} /\ Fresh

\* the constructors were given the capacity, the policy and the ttl of the
\* state
Made == ctor = CacheInit(capacity, eviction_policy, PyInt(ttl))

Init == Start /\ capacity \in 1..MaxCacheCap /\ ttl \in 0..MaxTtl /\ Made

Next ==
    \/ \E k \in CacheKeys, v \in Values : CallCachePut(k, v)
    \/ \E k \in CacheKeys : CallCacheGet(k)
    \/ \E k \in CacheKeys, v \in Payloads : CallBackendPut(k, v)
    \/ SweepCycle
    \/ Tick

Spec == Init /\ [][Next]_vars

\* CacheStorage on its own: a caller that puts and gets plain values
StorageInit == Start /\ capacity \in 1..MaxCap /\ ttl = 0 /\ Made

StorageNext ==
    \/ \E k \in Keys, v \in Values : CallStoragePut(k, v)
    \/ \E k \in Keys : CallStorageGet(k)

StorageSpec == StorageInit /\ [][StorageNext]_vars

\* Callers at every level on one storage: Backend.put/get of byte strings,
\* Storage.put of what a Backend caller cannot store, Cache.get and
\* Cache.stats; no TTL.
BackendInit == Start /\ capacity \in 1..MaxCacheCap /\ ttl = 0 /\ Made

BackendNext ==
    \/ \E k \in CacheKeys, v \in BackendPayloads : CallBackendPut(k, v)
    \/ \E k \in CacheKeys : CallBackendGet(k)
    \/ \E k \in CacheKeys, v \in RawValues : CallStoragePut(k, v)
    \/ \E k \in CacheKeys : CallStorageGet(k)
    \/ \E k \in CacheKeys : CallCacheGet(k)
    \/ CallStats

BackendSpec == BackendInit /\ [][BackendNext]_vars

\* CacheBackend on its own: callers that put and get byte strings, and one
\* that writes to the shared storage directly
RoundTripNext ==
    \/ \E k \in CacheKeys, v \in BackendPayloads : CallBackendPut(k, v)
    \/ \E k \in CacheKeys : CallBackendGet(k)
    \/ \E k \in CacheKeys, v \in RawValues : CallStoragePut(k, v)

RoundTripSpec == BackendInit /\ [][RoundTripNext]_vars

\* Cache.get against the clock, on a storage of one entry: a Backend caller
\* stores the two bytes (time of the put, value) or a single byte, time
\* passes, Cache.get reads.
StampedPayloads == {PyBytes(<<now, 1>>), PyBytes(<<1>>)}

ExpiryInit == Start /\ capacity = 1 /\ ttl \in 0..MaxTtl /\ Made

ExpiryNext ==
    \/ \E k \in CacheKeys, v \in StampedPayloads : CallBackendPut(k, v)
    \/ \E k \in CacheKeys : CallCacheGet(k)
    \/ Tick

ExpirySpec == ExpiryInit /\ [][ExpiryNext]_vars

\* Construction with any arguments: a capacity that may be zero or negative,
\* a policy name that may be unknown, a ttl that may be None.  The storage
\* exists whatever Cache.__init__ does; the Cache only if it returned (the
\* state's ttl is 0 when there is no Cache).
PolicyNames == {"lru", "lfu", "fifo"}

TtlArgs == {PyNone} \cup {PyInt(t) : t \in 0..MaxTtl}

ConstructInit ==
    /\ eviction_policy \in PolicyNames
    /\ capacity \in -1..MaxCacheCap
    /\ Fresh
    /\ \E t \in TtlArgs :
          /\ ctor = CacheInit(capacity, eviction_policy, t)
          /\ ttl = IF t.ty = "int" THEN t.n ELSE 0

ConstructNext ==
    \/ \E k \in CacheKeys, v \in Values : CallStoragePut(k, v)
    \/ \E k \in CacheKeys : CallStorageGet(k)
    \/ ctor.err = "none" /\ \E k \in CacheKeys : CallCacheGet(k)
    \/ ctor.err = "none" /\ SweepCycle

ConstructSpec == ConstructInit /\ [][ConstructNext]_vars

\* Tasks calling one memoized function, beside a Backend caller that stores
\* the two bytes Cache.get reads as (timestamp, value); no TTL.
MemoPayloads == {PyBytes(<<0, 0>>), PyBytes(<<0, 1>>)}

MemoInit == Start /\ capacity \in 1..MaxCacheCap /\ ttl = 0 /\ Made

MemoNext ==
    \/ \E p \in Tasks, a \in Args : MemoCall(p, a)
    \/ \E p \in Tasks : MemoFunc(p)
    \/ \E p \in Tasks : MemoPut(p)
    \/ \E k \in CacheKeys, v \in MemoPayloads : CallBackendPut(k, v)

MemoSpec == MemoInit /\ [][MemoNext]_vars

\* The sweep against the clock, with a TTL and a storage of two entries: a
\* Storage caller stores the pair (time of the put, value) that Cache.put
\* means to store, a Backend caller stores two bytes, time passes, a sweep
\* cycle runs.
SweepInit == Start /\ capacity = 2 /\ ttl \in 1..MaxTtl /\ Made

SweepNext ==
    \/ \E k \in CacheKeys : CallStoragePut(k, PyTuple(now, 1))
    \/ \E k \in CacheKeys : CallBackendPut(k, PyBytes(<<now, 1>>))
    \/ SweepCycle
    \/ Tick

SweepSpec == SweepInit /\ [][SweepNext]_vars

\* Every operation of Cache on a storage of one entry, with one task calling
\* a memoized function and a Backend caller that stores what Cache.get can
\* read; no TTL
CountersInit == Start /\ capacity = 1 /\ ttl = 0 /\ Made

CountersNext ==
    \/ \E k \in CacheKeys, v \in MemoPayloads : CallBackendPut(k, v)
    \/ \E k \in CacheKeys : CallCacheGet(k)
    \/ \E k \in CacheKeys, v \in Values : CallCachePut(k, v)
    \/ CallStats
    \/ SweepCycle
    \/ \E a \in Args : MemoCall(1, a)
    \/ MemoFunc(1)
    \/ MemoPut(1)

CountersSpec == CountersInit /\ [][CountersNext]_vars

\* Tasks that call Cache step by step and the sweeper, on a storage of one
\* entry with no TTL.
LockInit == Start /\ capacity = 1 /\ ttl = 0 /\ Made

\* Mutual exclusion: tasks that call get, put and stats on one key, one
\* sweeper, and a Backend caller
MutexNext ==
    \/ \E q \in Tasks : BeginGet(q, 1)
    \/ \E q \in Tasks : BeginPut(q, 1, PyInt(1))
    \/ \E q \in Tasks : BeginStats(q)
    \/ \E q \in Procs : Resume(q)
    \/ \E q \in Tasks : GetSection(q)
    \/ \E q \in Tasks : PutSection(q)
    \/ \E q \in Tasks : StatsSection(q)
    \/ StartSweeper(NumTasks + 1)
    \/ SweeperWake(NumTasks + 1)
    \/ SweepSection(NumTasks + 1)
    \/ CallBackendPut(1, PyBytes(<<0, 1>>))

MutexSpec == LockInit /\ [][MutexNext]_vars

\* The same under the event loop's scheduling: a task that is ready to run
\* (woken by release, or inside a section, which contains no await) is run
Section(p) ==
    GetSection(p) \/ PutSection(p) \/ StatsSection(p) \/ SweepSection(p)

Contenders == Tasks \cup {NumTasks + 1}

FairMutexNext ==
    \/ \E q \in Tasks : BeginGet(q, 1)
    \/ \E q \in Tasks : BeginPut(q, 1, PyInt(1))
    \/ \E q \in Tasks : BeginStats(q)
    \/ \E q \in Contenders : Resume(q)
    \/ \E q \in Contenders : Section(q)
    \/ StartSweeper(NumTasks + 1)
    \/ SweeperWake(NumTasks + 1)

FairMutexSpec ==
    /\ LockInit
    /\ [][FairMutexNext]_vars
    /\ \A p \in Contenders : WF_vars(Resume(p)) /\ WF_vars(Section(p))

\* The LFU scenario: put x, read x three times, put y, put z, put new keys
\* until the storage is full, then put one more new key.  The keys are
\* numbered in the order of their first put: x = 1, y = 2, z = 3.
ScenarioInit ==
    Start /\ eviction_policy = "lfu" /\ capacity = ScenarioCap /\ ttl = 0 /\ Made

ScenarioPutX == data = <<>> /\ \E v \in Values : StoragePutStep(1, v)

ScenarioReadX ==
    /\ DictKeys(data) = {1}
    /\ CounterGet(usage, 1) < 4
    /\ StorageGetStep(1)

ScenarioPutNew ==
    /\ CounterGet(usage, 1) = 4
    /\ last.victim = {}
    /\ \E v \in Values : StoragePutStep(Len(data) + 1, v)

ScenarioNext == ScenarioPutX \/ ScenarioReadX \/ ScenarioPutNew

ScenarioSpec == ScenarioInit /\ [][ScenarioNext]_vars

\* ================================================================= claims
LastPutEvicted == last.op = "Storage.put" /\ last.err = "none" /\ last.victim # {}

\* C1: after every put, whatever the policy and the capacity, the storage
\* holds at most capacity entries.
C1_CapacityBound == Len(data) <= capacity

\* C1 witness: a put into a full storage has just evicted, under LFU at
\* capacity 2, and the storage is exactly full.
C1_Witness ==
    /\ LastPutEvicted
    /\ eviction_policy = "lfu"
    /\ capacity = MaxCap
    /\ Len(data) = capacity

\* C6: under LRU, capacity + 1 puts of distinct keys into a new storage, with
\* nothing in between, leave the first key absent and every other key stored
\* with the value it was put with (what get returns for it).
C6_LruOverflowEvictsFirstInserted ==
    (eviction_policy = "lru" /\ run.pure /\ Len(run.puts) = capacity + 1) =>
        /\ DictGet(data, run.puts[1].key) = PyNone
        /\ \A i \in 2..Len(run.puts) :
              DictGet(data, run.puts[i].key) = run.puts[i].val
        /\ Len(data) = capacity

\* C6 witness: the scenario put(a,1), put(b,2), put(c,3) at capacity 2.
C6_Witness ==
    /\ eviction_policy = "lru"
    /\ capacity = 2
    /\ run.pure
    /\ Len(run.puts) = 3
    /\ last.victim = {run.puts[1].key}

\* C7: under LRU a key that get has just read (so that it is the most
\* recently used of at least two stored keys) is not the victim of the
\* overflowing put that follows.
C7_LruReadRefreshesRecency ==
    [][(/\ eviction_policy = "lru"
        /\ last.op = "Storage.get"
        /\ last.had
        /\ Len(data) >= 2
        /\ last'.op = "Storage.put"
        /\ last'.victim # {})
       => last'.victim # {last.key}]_vars

\* C8: under LRU a put that overwrites a stored key makes it the most
\* recently used: with at least two keys stored, the overflowing put that
\* follows evicts another key.
C8_LruOverwriteRefreshesRecency ==
    [][(/\ eviction_policy = "lru"
        /\ last.op = "Storage.put"
        /\ last.had
        /\ Len(data) >= 2
        /\ last'.op = "Storage.put"
        /\ last'.victim # {})
       => last'.victim # {last.key}]_vars

\* C10: under LFU the key an overflowing put evicts is stored at that moment
\* and no stored key has a smaller usage counter (the counters as they are
\* when the victim is chosen: after the put has counted its own key).
C10_LfuVictimHasMinimumCount ==
    [][(last'.op = "Storage.put" /\ eviction_policy = "lfu" /\ last'.victim # {})
       => LET counted == CounterInc(usage, last'.key)
              stored == DictKeys(data) \cup {last'.key}
          IN  \A x \in last'.victim :
                 /\ x \in stored
                 /\ \A y \in stored :
                       CounterGet(counted, x) <= CounterGet(counted, y)]_vars

\* C10 witness: an LFU eviction has happened while a key with a larger
\* counter stays stored.
C10_Witness ==
    /\ LastPutEvicted
    /\ eviction_policy = "lfu"
    /\ \E i \in DOMAIN usage : usage[i].n >= 2

\* what Cache.get would return for k in this state
GetNow(k) == CacheGet(data, usage, hits, misses, k)

\* k's stored value carries, as its timestamp, the time of the put that
\* stored it (what Cache.put is written to store)
StampedAtPut(k) ==
    LET e == Unpack2(zlib_decompress(DictGet(data, k)).val)
    IN  e.err = "none" /\ e.ts = DictAt(data, k)

C3_ReadYourWrite ==
    (last.op = "Storage.put" /\ last.err = "none")
    => /\ last.key \in DictKeys(data)
       /\ StorageGet(data, usage, last.key).val = last.val
       /\ last.victim # {last.key}

\* C4: a Cache.get that finds a stored key older than TTL returns absent,
\* removes the key, adds one to misses and leaves hits alone.
C4_LazyExpiryCountsAMiss ==
    [][\A k \in CacheKeys :
          (/\ CallCacheGet(k)
           /\ k \in DictKeys(data)
           /\ ttl # 0
           /\ StampedAtPut(k)
           /\ now - DictAt(data, k) > ttl)
          => /\ last'.err = "none"
             /\ last'.val = PyNone
             /\ k \notin DictKeys(data')
             /\ misses' = misses + 1
             /\ hits' = hits]_vars

\* C5: every Cache.get that completes adds exactly one to exactly one
\* counter: to hits when it returns a value, to misses when it returns
\* absent (the key missing or expired).
C5_EveryGetCountsOnce ==
    [][\A k \in CacheKeys :
          (CallCacheGet(k) /\ last'.err = "none")
          => IF last'.val # PyNone
             THEN hits' = hits + 1 /\ misses' = misses
             ELSE misses' = misses + 1 /\ hits' = hits]_vars

\* C9: Cache.put on a stored key restamps it: right after the put the entry
\* is the one this put stored, at this time, and get(k) returns the new
\* value.
C9_OverwriteResetsFreshness ==
    (last.op = "Cache.put" /\ last.had)
    => /\ last.err = "none"
       /\ last.key \in DictKeys(data)
       /\ DictAt(data, last.key) = now
       /\ GetNow(last.key).val = last.val

\* C11: under LFU, of the stored keys that share the minimal usage counter
\* when a put overflows, the one inserted earliest is evicted (the dict and
\* the Counter keep insertion order, the key being put comes last).
C11_LfuTieBreakOldestInsertion ==
    [][(last'.op = "Storage.put" /\ eviction_policy = "lfu" /\ last'.victim # {})
       => LET counted == CounterInc(usage, last'.key)
              minimal == {i \in DOMAIN counted :
                            \A j \in DOMAIN counted : counted[i].n <= counted[j].n}
              oldest == CHOOSE i \in minimal : \A j \in minimal : i <= j
          IN  last'.victim = {counted[oldest].key}]_vars

\* C12: in the LFU scenario the put of one more new key into the full
\* storage evicts y, which was never read, and x is still stored.
ScenarioDone == last.op = "Storage.put" /\ last.victim # {}

C12_LfuScenarioEvictsY ==
    ScenarioDone => (last.victim = {2} /\ 1 \in DictKeys(data))

\* C13: a get of a stored key, at the Storage, the Backend or the Cache
\* level, never answers with None, the signal of a missing key, whatever
\* value was put (None, empty and other falsy values included).
C13_AbsenceDistinguishable ==
    (/\ last.op \in {"Storage.get", "Backend.get", "Cache.get"}
     /\ last.had
     /\ last.err = "none")
    => last.val # PyNone

\* C15: a get, through the Backend or the Cache, of a key whose stored bytes
\* are not a zlib stream returns None without raising, and the entry is
\* removed from the storage.
Corrupted(k) == k \in DictKeys(data) /\ DictGet(data, k).ty = "bytes"

C15_CorruptionIsAMiss ==
    [][(last'.op \in {"Backend.get", "Cache.get"} /\ Corrupted(last'.key))
       => (/\ last'.err = "none"
           /\ last'.val = PyNone
           /\ last'.key \notin DictKeys(data'))]_vars

\* C19: Backend.get(k) right after a Backend.put(k, v) that left k stored
\* returns exactly the byte string v, the empty one included.
C19_CompressionRoundTrip ==
    [][(/\ last.op = "Backend.put"
        /\ last.err = "none"
        /\ last.key \in DictKeys(data)
        /\ last'.op = "Backend.get"
        /\ last'.key = last.key)
       => (last'.err = "none" /\ last'.val = last.val)]_vars

C19_Witness ==
    /\ last.op = "Backend.get"
    /\ last.had
    /\ last.err = "none"
    /\ last.val = PyBytes(<<>>)

\* C20: stats() changes nothing, reports the number of stored entries and
\* the two counters, and reports as oldest timestamp None exactly when the
\* storage is empty and otherwise the timestamp of an entry in the storage
\* (the time it was put, or the timestamp Cache.get reads in it).
EntryTimestamps ==
    {PyInt(data[i].at) : i \in DOMAIN data}
    \cup {PyInt(Unpack2(zlib_decompress(data[i].val).val).ts) :
            i \in {j \in DOMAIN data :
                     /\ zlib_decompress(data[j].val).err = "none"
                     /\ Unpack2(zlib_decompress(data[j].val).val).err = "none"}}

C20_StatsSnapshot ==
    [][last'.op = "Cache.stats"
       => (/\ UNCHANGED <<data, usage, hits, misses>>
           /\ last'.err = "none"
           /\ last'.size = Len(data)
           /\ last'.hits = hits
           /\ last'.misses = misses
           /\ (last'.val = PyNone <=> data = <<>>)
           /\ (data # <<>> => last'.val \in EntryTimestamps))]_vars

\* C14: Cache.get of a key that is not stored, or of a key whose entry
\* carries the time of its put and is older than the TTL, returns None and
\* raises nothing.
MissingOrExpired(k) ==
    \/ k \notin DictKeys(data)
    \/ (StampedAtPut(k) /\ ttl # 0 /\ now - DictAt(data, k) > ttl)

C14_GetNeverRaises ==
    [][(last'.op = "Cache.get" /\ MissingOrExpired(last'.key))
       => (last'.err = "none" /\ last'.val = PyNone)]_vars

C14_Witness ==
    /\ last.op = "Cache.get"
    /\ last.had
    /\ last.err = "none"
    /\ last.val = PyNone
    /\ last.key \notin DictKeys(data)

\* C16: with a capacity of zero or less, or a policy name other than "lru"
\* and "lfu", construction raises and no call is ever accepted.
InvalidConstruction ==
    capacity <= 0 \/ eviction_policy \notin {"lru", "lfu"}

C16_ConstructionValidation ==
    InvalidConstruction => (ctor.storage_err # "none" /\ last.op = "init")

\* C17: a Cache given ttl None or 0 is constructed, and no Cache.get and no
\* sweep cycle in it removes an entry.
C17_NoTtlNoExpiry ==
    [][ctor.ttl \in {PyNone, PyInt(0)}
       => (/\ ctor.err = "none"
           /\ (last'.op \in {"Cache.get", "sweep"}
               => DictKeys(data') = DictKeys(data)))]_vars

\* C18: a memoized call whose key holds a stored result r, falsy or not,
\* returns r without going to the wrapped function; and the call that did
\* go to the wrapped function returns after it has stored the result.
HeldResult(k) == Unpack2(zlib_decompress(DictGet(data, k)).val)

C18_MemoHitAvoidsRecomputation ==
    [][/\ \A p \in Tasks, a \in Args :
            (/\ MemoCall(p, a)
             /\ GetNow(digest(a)).err = "none"
             /\ GetNow(digest(a)).val # PyNone)
            => (/\ last'.op = "memo"
                /\ last'.val = GetNow(digest(a)).val
                /\ memo'[p].pc = "idle")
       /\ \A p \in Tasks :
            MemoPut(p)
            => (/\ last'.err = "none"
                /\ last'.val = memo[p].result
                /\ last'.key \in DictKeys(data'))]_vars

\* C27: a Storage.put of a new key into a full storage removes exactly one
\* entry; a put of a new key into a storage that is not full, and a put of a
\* stored key, remove none; every entry that is neither written nor removed
\* keeps its value.
C27_EvictionCount ==
    [][last'.op = "Storage.put"
       => LET k == last'.key
              removed == (DictKeys(data) \cup {k}) \ DictKeys(data')
          IN  /\ IF k \notin DictKeys(data) /\ Len(data) >= capacity
                 THEN Cardinality(removed) = 1
                 ELSE removed = {}
              /\ \A j \in DictKeys(data) \ ({k} \cup removed) :
                    DictGet(data', j) = DictGet(data, j)]_vars

C27_Witness ==
    /\ LastPutEvicted
    /\ ~last.had
    /\ capacity >= 2
    /\ Len(data) = capacity

\* C30: for a ttl that is not zero the sweep interval is half the ttl
\* (exactly, or rounded down), and the interval is the default one exactly
\* when the ttl is None or zero.
C30_SweepInterval ==
    /\ (ctor.ttl.ty = "int" /\ ctor.ttl.n # 0)
       => /\ ctor.err = "none"
          /\ \/ 2 * ctor.cleanup_interval.n = ctor.ttl.n
             \/ ctor.cleanup_interval.n = ctor.ttl.n \div 2
    /\ (ctor.ttl \in {PyNone, PyInt(0)})
       <=> (ctor.err = "none" /\ ctor.cleanup_interval = PyInt(DefaultInterval))

\* C28: a sweep cycle that completes, with a TTL, leaves exactly the entries
\* put no longer than TTL ago, each as it was and in the same order, and
\* changes neither hits nor misses.
C28_SweepPostcondition ==
    [][(last'.op = "sweep" /\ last'.err = "none" /\ ttl # 0)
       => (/\ data' = SelectSeq(data, LAMBDA e : now - e.at <= ttl)
           /\ hits' = hits
           /\ misses' = misses)]_vars

C28_Witness ==
    /\ last.op = "sweep"
    /\ last.err = "none"
    /\ ttl # 0
    /\ data # <<>>
    /\ \E i \in DOMAIN usage : usage[i].key \notin DictKeys(data)

\* C21: no step of get, put, stats, the sweep or a memoized call makes hits
\* or misses smaller.
C21_CountersMonotone == [][hits' >= hits /\ misses' >= misses]_vars

C21_Witness == last.op = "memo" /\ hits > 0 /\ misses > 0

\* The sweeper against its owner, with a TTL and a storage of one entry: the
\* owner starts the sweeper and may cancel it, tasks call stats, a Storage
\* caller stores the pair (time of the put, value), time passes.
CancelInit == Start /\ capacity = 1 /\ ttl = 1 /\ Made

CancelNext ==
    \/ StartSweeper(NumTasks + 1)
    \/ SweeperWake(NumTasks + 1)
    \/ SweepSection(NumTasks + 1)
    \/ Cancel(NumTasks + 1)
    \/ \E q \in Tasks : BeginStats(q)
    \/ \E q \in Tasks : StatsSection(q)
    \/ \E q \in Contenders : Resume(q)
    \/ CallStoragePut(1, PyTuple(now, 1))
    \/ Tick

CancelSpec == CancelInit /\ [][CancelNext]_vars

\* Tasks that call one memoized function with the same argument or call
\* stats, the sweeper, and a Backend caller that stores what Cache.get can
\* read; a storage of one entry, no TTL.
MemoLockNext ==
    \/ \E q \in Tasks : BeginMemo(q, 1)
    \/ \E q \in Tasks : MemoGetSection(q)
    \/ \E q \in Tasks : MemoFunc(q)
    \/ \E q \in Tasks : BeginMemoPut(q)
    \/ \E q \in Tasks : MemoPutSection(q)
    \/ \E q \in Tasks : BeginStats(q)
    \/ \E q \in Tasks : StatsSection(q)
    \/ \E q \in Contenders : Resume(q)
    \/ StartSweeper(NumTasks + 1)
    \/ SweeperWake(NumTasks + 1)
    \/ SweepSection(NumTasks + 1)
    \/ CallBackendPut(1, PyBytes(<<0, 1>>))

MemoLockSpec == LockInit /\ [][MemoLockNext]_vars

\* A started sweeper that the event loop runs (its sleep ends, its section
\* runs), with a TTL and a storage of one entry, while time passes, a
\* Backend caller stores two bytes and a Storage caller stores the pair
\* (time of the put, value); nobody calls Cache.get.
StaleInit == Start /\ capacity = 1 /\ ttl = 1 /\ Made

StaleNext ==
    \/ StartSweeper(NumTasks + 1)
    \/ SweeperWake(NumTasks + 1)
    \/ SweepSection(NumTasks + 1)
    \/ \E k \in CacheKeys : CallBackendPut(k, PyBytes(<<now, 1>>))
    \/ \E k \in CacheKeys : CallStoragePut(k, PyTuple(now, 1))
    \/ Tick

StaleSpec ==
    /\ StaleInit
    /\ [][StaleNext]_vars
    /\ WF_vars(SweeperWake(NumTasks + 1))
    /\ WF_vars(SweepSection(NumTasks + 1))

\* An LFU storage of two entries under a Cache with a TTL: a Storage caller
\* stores, under one key more than Keys has, the pair (time of the put,
\* value), time passes, sweep cycles run.
EvictKeys == 1..(NumKeys + 1)

EvictInit == Start /\ eviction_policy = "lfu" /\ capacity = 2 /\ ttl = 1 /\ Made

EvictNext ==
    \/ \E k \in EvictKeys : CallStoragePut(k, PyTuple(now, 1))
    \/ SweepCycle
    \/ Tick

EvictSpec == EvictInit /\ [][EvictNext]_vars

\* Cache.get and Cache.put against the clock on a storage of two entries,
\* with a TTL and as many keys as the storage holds (nothing is evicted): a
\* Backend caller stores the two bytes (time of the put, value), time
\* passes, Cache.get reads and Cache.put is called.
LazyInit == Start /\ capacity = 2 /\ ttl = 1 /\ Made

LazyNext ==
    \/ \E k \in 1..capacity : CallBackendPut(k, PyBytes(<<now, 1>>))
    \/ \E k \in 1..capacity : CallCacheGet(k)
    \/ CallCachePut(1, PyInt(1))
    \/ Tick

LazySpec == LazyInit /\ [][LazyNext]_vars

\* One task that calls put(1, 0), the other tasks that call get(1), the
\* sweeper, and a Backend caller that stores under key 1 the two bytes
\* Cache.get reads as the value 1; a storage of one entry, no TTL.
LinearNext ==
    \/ BeginPut(1, 1, PyInt(0))
    \/ PutSection(1)
    \/ \E q \in Tasks \ {1} : BeginGet(q, 1)
    \/ \E q \in Tasks \ {1} : GetSection(q)
    \/ \E q \in Contenders : Resume(q)
    \/ StartSweeper(NumTasks + 1)
    \/ SweeperWake(NumTasks + 1)
    \/ SweepSection(NumTasks + 1)
    \/ CallBackendPut(1, PyBytes(<<0, 1>>))

LinearSpec == LockInit /\ [][LinearNext]_vars

\* The owner of a cache that calls Cache.start any number of times and may
\* cancel the task that cleanup_task names, beside a task that calls stats;
\* a storage of one entry, no TTL.
StartNext ==
    \/ \E s \in Sweepers : StartSweeper(s)
    \/ \E s \in Sweepers : SweeperWake(s)
    \/ \E s \in Sweepers : SweepSection(s)
    \/ \E q \in Procs : Resume(q)
    \/ cleanup_task # 0 /\ Cancel(cleanup_task)
    \/ BeginStats(1)
    \/ StatsSection(1)

StartSpec == LockInit /\ [][StartNext]_vars

\* Calls that fail inside the locked section: a Backend caller stores a
\* single byte, which Cache.get and the sweep cannot unpack, and Cache.put
\* raises whatever it is given; tasks call get, put and stats, the sweeper
\* runs; a storage of one entry, no TTL.
FailNext ==
    \/ \E q \in Tasks : BeginGet(q, 1)
    \/ \E q \in Tasks : BeginPut(q, 1, PyInt(1))
    \/ \E q \in Tasks : BeginStats(q)
    \/ \E q \in Contenders : Resume(q)
    \/ \E q \in Tasks : GetSection(q)
    \/ \E q \in Tasks : PutSection(q)
    \/ \E q \in Tasks : StatsSection(q)
    \/ StartSweeper(NumTasks + 1)
    \/ SweeperWake(NumTasks + 1)
    \/ SweepSection(NumTasks + 1)
    \/ CallBackendPut(1, PyBytes(<<1>>))

FailSpec == LockInit /\ [][FailNext]_vars

\* C22: at most one task is inside a locked section of Cache.get, Cache.put,
\* Cache.stats or the sweep, it is the task that holds the lock, and every
\* step of these operations that reads or writes the storage or the
\* counters is taken by the holder of the lock, which releases it with that
\* step.
InSection == {p \in Procs : task[p].pc = "locked"}

C22_MutualExclusion ==
    /\ [](/\ Cardinality(InSection) <= 1
          /\ \A p \in InSection : lock.locked /\ lock.owner = p)
    /\ [][(/\ <<data, usage, hits, misses, last>>' # <<data, usage, hits, misses, last>>
           /\ last'.op \in {"Cache.get", "Cache.put", "Cache.stats", "sweep"})
          => (/\ lock.locked
              /\ lock.owner \in InSection
              /\ task[lock.owner].op = last'.op
              /\ ~lock'.locked)]_vars

C22_Witness ==
    \E p \in InSection : \E q \in Procs :
        task[q].pc = "waiting" /\ task[p].op = "Cache.get" /\ task[q].op = "sweep"

\* C23: no task requests the lock while it holds it, and under fair
\* scheduling every get, put, stats call and sweep cycle that waits for the
\* lock acquires it, and every one that holds it completes and releases it.
C23_DeadlockFreedom ==
    /\ [](\A p \in Procs :
             task[p].pc = "waiting"
                 => /\ lock.owner # p
                    /\ Len(SelectSeq(lock.waiters, LAMBDA q : q = p)) = 1)
    /\ \A p \in Contenders : task[p].pc = "waiting" ~> task[p].pc = "locked"
    /\ \A p \in Contenders :
          task[p].pc = "locked"
              ~> (task[p].pc \in {"done", "sleeping", "dead"} /\ lock.owner # p)

C23_Witness == lock.locked /\ Len(lock.waiters) >= 2

\* C24: cancellation reaches the sweeper only in its sleep or while it
\* waits for the lock, changes nothing in the storage and leaves the lock
\* as the other tasks hold it; a cancelled sweeper neither holds the lock
\* nor waits for it; a sweep cycle that deletes, deletes every expired key
\* and releases the lock in the same step.
CancelledSweepers == {s \in Sweepers : task[s].pc = "cancelled"}

C24_CleanCancellation ==
    /\ [](\A s \in CancelledSweepers :
             /\ lock.owner # s
             /\ \A i \in DOMAIN lock.waiters : lock.waiters[i] # s)
    /\ [][\A s \in Sweepers :
             /\ (s \in CancelledSweepers' \ CancelledSweepers)
                    => /\ task[s].pc \in {"sleeping", "waiting"}
                       /\ data' = data
                       /\ lock'.locked = lock.locked
                       /\ lock'.owner = lock.owner
             /\ (task[s].pc = "locked" /\ task'[s].pc # "locked")
                    => /\ task'[s].pc \in {"sleeping", "dead"}
                       /\ ~lock'.locked
                       /\ last'.op = "sweep"
                       /\ last'.err = "none" => expired_keys(data') = {}]_vars

C24_Witness ==
    /\ CancelledSweepers # {}
    /\ last.op = "sweep"
    /\ last.err = "none"
    /\ data = <<>>
    /\ \E i \in DOMAIN usage : usage[i].key = 1
    /\ lock.locked

\* C25: while the function wrapped by async_memoize runs for a call, that
\* call neither holds the lock nor waits for it, so that the lock is free or
\* held by another task, whose section completes while the function runs.
InFunc == {p \in Tasks : memo[p].pc = "func"}

C25_MemoizedWorkOutsideLock ==
    /\ [](\A p \in InFunc :
             /\ task[p].pc = "idle"
             /\ lock.owner # p
             /\ \A i \in DOMAIN lock.waiters : lock.waiters[i] # p)
    /\ [][\A p \in InFunc \cap InFunc' :
             \A q \in InSection \ InSection' :
                 q # p /\ ~lock'.locked]_vars

C25_Witness ==
    /\ InFunc # {}
    /\ last.op = "Cache.stats"
    /\ task[NumTasks + 1].pc = "locked"

\* C26: two concurrent memoized calls with the same arguments can both miss
\* and both invoke the function, and each then stores its result, so that
\* the cache holds the result of the put that ran last.
C26_NoSingleFlight ==
    [][\A p \in Tasks :
          (MemoPutSection(p) /\ invoked[memo[p].arg] >= 2)
          => (/\ last'.err = "none"
              /\ digest(memo[p].arg) \in DictKeys(data')
              /\ Unpack2(zlib_decompress(DictGet(data', digest(memo[p].arg))).val).val
                     = memo[p].result)]_vars

\* C29: with a TTL and a started sweeper that is run and not cancelled,
\* an entry whose put is more than TTL ago is eventually removed from the
\* storage or replaced by a newer put, without any get.
Stale(k) == k \in DictKeys(data) /\ ttl # 0 /\ now - DictAt(data, k) > ttl

C29_StaleEventuallyRemoved ==
    \A k \in CacheKeys :
        (Stale(k) /\ task[NumTasks + 1].pc \notin {"none", "cancelled"})
            ~> ~Stale(k)

\* C31: under LFU a Storage.get of a stored key adds exactly 1 to that key's
\* usage counter and changes no other counter; a Storage.get of a key that
\* is not stored leaves the Counter as it was, with no new entry.
C31_LfuCountsReads ==
    [][(last'.op = "Storage.get" /\ eviction_policy = "lfu")
       => LET k == last'.key
          IN  IF k \in DictKeys(data)
              THEN /\ CounterGet(usage', k) = CounterGet(usage, k) + 1
                   /\ CounterKeys(usage') = CounterKeys(usage) \cup {k}
                   /\ \A j \in CounterKeys(usage) \ {k} :
                         CounterGet(usage', j) = CounterGet(usage, j)
              ELSE usage' = usage]_vars

C31_Witness ==
    /\ eviction_policy = "lfu"
    /\ last.op = "Storage.get"
    /\ last.key \in DictKeys(data)
    /\ CounterGet(usage, last.key) = 2
    /\ \E j \in CounterKeys(usage) \ {last.key} : CounterGet(usage, j) = 1

\* C38: under LFU a Storage.put(k, v) leaves k's usage counter exactly 1
\* above what it was (1 for a key that had none), and a key that the put
\* evicted has no counter left.
C38_LfuCountsWrites ==
    [][(last'.op = "Storage.put" /\ eviction_policy = "lfu")
       => (/\ CounterGet(usage', last'.key) = CounterGet(usage, last'.key) + 1
           /\ \A j \in last'.victim : j \notin CounterKeys(usage'))]_vars

\* C32: under LFU, after every completed Cache.put, Cache.get and sweep
\* cycle the keys that have a usage counter are the keys stored.
C32_LfuBookkeepingInStep ==
    (/\ eviction_policy = "lfu"
     /\ last.op \in {"Cache.put", "Cache.get", "sweep"}
     /\ last.err = "none")
    => CounterKeys(usage) = DictKeys(data)

\* C33: under LFU with a TTL, whatever expired before, a put that overflows
\* the storage evicts a key that is stored, raises nothing and leaves at
\* most capacity entries.
C33_EvictionTargetsStoredKey ==
    [][(last'.op = "Storage.put" /\ eviction_policy = "lfu" /\ ttl # 0)
       => (/\ last'.err = "none"
           /\ last'.victim \subseteq DictKeys(data) \cup {last'.key}
           /\ (Len(data) <= capacity => Len(data') <= capacity))]_vars

\* C37: a Cache.get(k) that removes k leaves every other entry as it was,
\* key, value, time of its put and place in the order; a Cache.put changes
\* neither hits nor misses.
C37_LazyExpiryFrame ==
    [][/\ (last'.op = "Cache.get" /\ DictKeys(data') # DictKeys(data))
          => data' = SelectSeq(data, LAMBDA e : e.key # last'.key)
       /\ last'.op = "Cache.put" => (hits' = hits /\ misses' = misses)]_vars

C37_Witness ==
    /\ last.op = "Cache.get"
    /\ last.had
    /\ last.key \notin DictKeys(data)
    /\ data # <<>>
    /\ hits > 0

\* C34: a get(k) that holds the lock after the put(k, v) of another task has
\* held it, and returns a value, returns v, the value of that put (here the
\* only put: task 1's put(1, 0)).
C34_LinearizableReads ==
    (/\ task[1].pc = "done"
     /\ last.op = "Cache.get"
     /\ last.err = "none"
     /\ last.val # PyNone)
    => last.val = PyInt(0)

\* C35: however often Cache.start is called, at most one sweeper task is
\* running, and it is the task that cleanup_task names.
Running == {s \in Sweepers : task[s].pc \in {"sleeping", "waiting", "locked"}}

C35_AtMostOneSweeper ==
    /\ Cardinality(Running) <= 1
    /\ Running \subseteq {cleanup_task}

\* C36: a get, a put or a sweep cycle that raises inside its locked section
\* releases the lock with the step that raises, so the lock is never held
\* by a task that has left its section, and the first waiter, or whoever
\* asks next, can take it.
C36_LockSurvivesFailures ==
    /\ [](lock.locked => lock.owner \in InSection)
    /\ [][\A p \in InSection \ InSection' :
             last'.err # "none"
             => (/\ ~lock'.locked
                 /\ lock'.waiters = lock.waiters
                 /\ task'[p].pc \in {"done", "dead"})]_vars

C36_Witness ==
    /\ last.op = "Cache.get"
    /\ last.err = "ValueError"
    /\ task[NumTasks + 1].pc = "dead"
    /\ \E p \in InSection : task[p].op = "Cache.put"

====
